---------------------------- MODULE Spec2Model ----------------------------
(***************************************************************************)
(* A model of the LRU-K replacer (src/src/buffer/lru_k_replacer.cpp) and   *)
(* of the B+Tree index orchestrator (src/unnamed/part_000) with the leaf   *)
(* page it works on (appended to src/src/buffer/lru_k_replacer.cpp).       *)
(*                                                                         *)
(* Spec     : the replacer; every public method is one atomic action, as   *)
(*            each runs under std::lock_guard on latch_.                   *)
(* SpecTree : the B+Tree called from one thread.                           *)
(* SpecLeaf : one leaf page and the calls of its methods.                  *)
(* SpecThreads : the replacer called from two threads, each method split   *)
(*            into the taking of latch_, its statements and the release.   *)
(***************************************************************************)
EXTENDS Integers, Sequences, FiniteSets, TLC

VARIABLES
    replacer_size_,      \* LRUKReplacer::replacer_size_ (num_frames)
    k_,                  \* LRUKReplacer::k_
    node_store_,         \* frame id -> [history_, is_evictable_]
    curr_size_,          \* LRUKReplacer::curr_size_
    current_timestamp_,  \* LRUKReplacer::current_timestamp_
    ret,                 \* the last replacer call: its arguments and outcome
    header_page_id_,     \* BPlusTree::header_page_id_
    pages,               \* the buffer pool's pages: page id -> page contents
    tret,                \* the last B+Tree call: its arguments and outcome
    expected,            \* key -> value the index is asked to hold (the calls made)
    accesses,            \* the page accesses of the last B+Tree call, in order
    yielded,             \* the <<key, value>> pairs the last iteration produced
    leaf_page,           \* a BPlusTreeLeafPage
    lret,                \* the last leaf page call: its arguments and outcome
    inserted,            \* key -> value of the SetKeyAt calls that returned true
    latch_,              \* LRUKReplacer::latch_: the thread that holds it
    pc,                  \* thread -> the statement of the replacer it is at
    running              \* thread -> the replacer call it is in, with its locals

replacerVars ==
    <<replacer_size_, k_, node_store_, curr_size_, current_timestamp_, ret>>

treeVars == <<header_page_id_, pages, tret, expected, accesses, yielded>>

leafVars == <<leaf_page, lret, inserted>>

threadVars == <<latch_, pc, running>>

vars == <<replacerVars, treeVars, leafVars, threadVars>>

----------------------------------------------------------------------------
(* Bounds of the model.                                                    *)

MaxTimestamp == 4    \* calls that advance the clock stop at this value
MaxKey == 3          \* B+Tree keys are 1..MaxKey

\* The constructor's arguments num_frames and k. k = 0 is left out: with it
\* Evict would dereference history_.end() (lines 79-81).
NumFramesChoices == {0, 1, 2}
KChoices == {1, 2}

\* Frame identifiers passed by callers: negative, in range, equal to the
\* largest replacer_size_ and beyond it.
FrameIds == {-1, 0, 1, 2, 3}

\* What an out-of-bounds read of a timestamp may yield: below, equal to and
\* above every recorded timestamp.
GarbageStamps == 0 .. (MaxTimestamp + 1)

NoFrame == -1        \* frame_id_t{-1} in Evict, and the fid of a non-call

----------------------------------------------------------------------------
(* LRUKNode                                                                *)

\* A node as the constructor and RecordAccess create it: empty history, not
\* evictable.
NewNode == [history_ |-> <<>>, is_evictable_ |-> FALSE]

Known(f) == f \in DOMAIN node_store_

EvictableFrames == {f \in DOMAIN node_store_ : node_store_[f].is_evictable_}

\* LRUKReplacer::Size. curr_size_ is a size_t; it is decremented only for a
\* frame whose flag is set, so it stays far from both ends of its range.
Size == curr_size_

----------------------------------------------------------------------------
(* Helpers of Evict                                                        *)

\* All iteration orders of an unordered_map with key set S.
Orders(S) ==
    {o \in [1 .. Cardinality(S) -> S] :
        \A i, j \in 1 .. Cardinality(S) : i # j => o[i] # o[j]}

\* node.history_.size() < k_
IsInfiniteK(node) == Len(node.history_) < k_

\* Mutant: the first loop without its test of is_evictable_.
InfiniteFrames_AnyFrame ==
    {f \in DOMAIN node_store_ : IsInfiniteK(node_store_[f])}

\* infinitely_distanced_frames / evictable_frames after the first loop
InfiniteFrames == {f \in EvictableFrames : IsInfiniteK(node_store_[f])}
FiniteFrames == {f \in EvictableFrames : ~IsInfiniteK(node_store_[f])}

\* history_.back(); on an empty list the read is undefined and yields g[f]
Back(f, g) ==
    LET h == node_store_[f].history_
    IN  IF Len(h) = 0 THEN g[f] ELSE h[Len(h)]

\* The loop of lines 58-65 from position i on, in iteration order o.
RECURSIVE ScanInfinite(_, _, _, _)
ScanInfinite(o, i, evicted, g) ==
    IF i > Len(o) THEN evicted
    ELSE ScanInfinite(o, i + 1,
                      IF Back(o[i], g) < Back(evicted, g) THEN o[i] ELSE evicted,
                      g)

\* Mutant: the oldest recorded access instead of the k-th most recent.
KthStamp_Oldest(h) == h[1]

\* *std::next(history_.begin(), history_.size() - k_)
KthStamp(h) == h[Len(h) - k_ + 1]

\* The loop of lines 74-89 from position i on: <<max_kth_distance, frame_id>>
RECURSIVE ScanFinite(_, _, _, _)
ScanFinite(o, i, max_kth_distance, frame_id) ==
    IF i > Len(o) THEN frame_id
    ELSE LET h == node_store_[o[i]].history_
             kth_distance == current_timestamp_' - KthStamp(h)
         IN  IF Len(h) >= k_ /\ (kth_distance > max_kth_distance \/ frame_id = NoFrame)
             THEN ScanFinite(o, i + 1, kth_distance, o[i])
             ELSE ScanFinite(o, i + 1, max_kth_distance, frame_id)

\* Mutant: the victim keeps its history.
EvictedNode_KeepHistory(node) == [node EXCEPT !.is_evictable_ = FALSE]

\* Lines 67-69 and 92-94: the victim's record after eviction.
EvictedNode(node) == [node EXCEPT !.history_ = <<>>, !.is_evictable_ = FALSE]

Call(op, f, flag, result) == [op |-> op, fid |-> f, flag |-> flag, result |-> result]

----------------------------------------------------------------------------
(* The replacer's operations                                               *)

\* LRUKReplacer::LRUKReplacer
ReplacerInit ==
    /\ replacer_size_ \in NumFramesChoices
    /\ k_ \in KChoices
    /\ node_store_ = [f \in 0 .. (replacer_size_ - 1) |-> NewNode]
    /\ curr_size_ = 0
    /\ current_timestamp_ = 0
    /\ ret = Call("new", NoFrame, FALSE, "ok")

EvictVictim(victim) ==
    /\ node_store_' = [node_store_ EXCEPT ![victim] = EvictedNode(@)]
    /\ curr_size_' = curr_size_ - 1
    /\ ret' = Call("Evict", victim, FALSE, "frame")

EvictNone ==
    /\ ret' = Call("Evict", NoFrame, FALSE, "none")
    /\ UNCHANGED <<node_store_, curr_size_>>

\* LRUKReplacer::Evict
Evict ==
    /\ current_timestamp_ < MaxTimestamp
    /\ current_timestamp_' = current_timestamp_ + 1
    /\ UNCHANGED <<replacer_size_, k_>>
    /\ IF DOMAIN node_store_ = {} THEN EvictNone
       ELSE IF InfiniteFrames # {}
       THEN \E o \in Orders(InfiniteFrames) :
            \E g \in [{f \in InfiniteFrames : node_store_[f].history_ = <<>>}
                        -> GarbageStamps] :
                EvictVictim(ScanInfinite(o, 1, o[1], g))
       ELSE IF FiniteFrames # {}
       THEN \E o \in Orders(FiniteFrames) :
                LET frame_id == ScanFinite(o, 1, 0, NoFrame)
                IN  IF frame_id # NoFrame THEN EvictVictim(frame_id) ELSE EvictNone
       ELSE EvictNone

\* static_cast<size_t>(frame_id) > replacer_size_ ; a negative frame_id_t
\* converts to a size_t above 2^63, larger than every replacer_size_ here.
FrameIdTooLarge(f) == f < 0 \/ f > replacer_size_

\* Mutant: the access is stamped without advancing the clock.
RecordAccess_NoTick(f) ==
    /\ UNCHANGED <<replacer_size_, k_, curr_size_, current_timestamp_>>
    /\ IF FrameIdTooLarge(f)
       THEN /\ ret' = Call("RecordAccess", f, FALSE, "exception")
            /\ UNCHANGED node_store_
       ELSE /\ node_store_' =
                [g \in DOMAIN node_store_ \cup {f} |->
                    LET node == IF Known(g) THEN node_store_[g] ELSE NewNode
                    IN  IF g = f
                        THEN [node EXCEPT !.history_ = Append(@, current_timestamp_)]
                        ELSE node]
            /\ ret' = Call("RecordAccess", f, FALSE, "ok")

\* LRUKReplacer::RecordAccess
RecordAccess(f) ==
    /\ current_timestamp_ < MaxTimestamp
    /\ current_timestamp_' = current_timestamp_ + 1
    /\ UNCHANGED <<replacer_size_, k_, curr_size_>>
    /\ IF FrameIdTooLarge(f)
       THEN /\ ret' = Call("RecordAccess", f, FALSE, "exception")
            /\ UNCHANGED node_store_
       ELSE /\ node_store_' =
                [g \in DOMAIN node_store_ \cup {f} |->
                    LET node == IF Known(g) THEN node_store_[g] ELSE NewNode
                    IN  IF g = f
                        THEN [node EXCEPT !.history_ = Append(@, current_timestamp_')]
                        ELSE node]
            /\ ret' = Call("RecordAccess", f, FALSE, "ok")

\* Mutant: the count follows the argument, not the change of the flag.
SizeAfterSetEvictable_NoCheck(was, set_evictable) ==
    IF set_evictable THEN curr_size_ + 1 ELSE curr_size_ - 1

\* Lines 125-130: curr_size_ after SetEvictable
SizeAfterSetEvictable(was, set_evictable) ==
    IF was /\ ~set_evictable THEN curr_size_ - 1
    ELSE IF ~was /\ set_evictable THEN curr_size_ + 1
    ELSE curr_size_

\* Mutant: an unknown frame gets a record (operator[]) instead of an exception.
SetEvictable_Creates(f, set_evictable) ==
    /\ UNCHANGED <<replacer_size_, k_, current_timestamp_>>
    /\ curr_size_' =
        IF Known(f) /\ node_store_[f].is_evictable_
        THEN (IF set_evictable THEN curr_size_ ELSE curr_size_ - 1)
        ELSE (IF set_evictable THEN curr_size_ + 1 ELSE curr_size_)
    /\ node_store_' =
        [g \in DOMAIN node_store_ \cup {f} |->
            IF g = f
            THEN [history_ |-> IF Known(f) THEN node_store_[f].history_ ELSE <<>>,
                  is_evictable_ |-> set_evictable]
            ELSE node_store_[g]]
    /\ ret' = Call("SetEvictable", f, set_evictable, "ok")

\* LRUKReplacer::SetEvictable
SetEvictable(f, set_evictable) ==
    /\ UNCHANGED <<replacer_size_, k_, current_timestamp_>>
    /\ IF ~Known(f)
       THEN /\ ret' = Call("SetEvictable", f, set_evictable, "exception")
            /\ UNCHANGED <<node_store_, curr_size_>>
       ELSE /\ curr_size_' =
                SizeAfterSetEvictable(node_store_[f].is_evictable_, set_evictable)
            /\ node_store_' =
                [node_store_ EXCEPT ![f].is_evictable_ = set_evictable]
            /\ ret' = Call("SetEvictable", f, set_evictable, "ok")

\* Mutant: the record is reset, not erased.
Erase_ResetOnly(f) == [node_store_ EXCEPT ![f] = NewNode]

\* node_store_.erase(frame_id)
Erase(f) == [g \in DOMAIN node_store_ \ {f} |-> node_store_[g]]

\* LRUKReplacer::Remove
Remove(f) ==
    /\ UNCHANGED <<replacer_size_, k_, current_timestamp_>>
    /\ ret' = Call("Remove", f, FALSE, "ok")
    /\ IF ~Known(f)
       THEN UNCHANGED <<node_store_, curr_size_>>
       ELSE /\ curr_size_' =
                IF node_store_[f].is_evictable_ THEN curr_size_ - 1 ELSE curr_size_
            /\ node_store_' = Erase(f)


----------------------------------------------------------------------------
(* The replacer called from several threads                                *)

Threads == {"t1", "t2"}
NoThread == "none"

\* The calls the threads make: on frames the constructor registered and on
\* one it rejects, up to a clock of MaxThreadTimestamp.
ThreadFrameIds == {0, 1, 3}
MaxThreadTimestamp == MaxTimestamp - 1
ThreadCalls ==
    {Call("Evict", NoFrame, FALSE, "running"), Call("Size", NoFrame, FALSE, "running")}
    \cup {Call("RecordAccess", f, FALSE, "running") : f \in ThreadFrameIds}
    \cup {Call("SetEvictable", f, b, "running") : f \in ThreadFrameIds, b \in BOOLEAN}
    \cup {Call("Remove", f, FALSE, "running") : f \in ThreadFrameIds}

\* A thread's call with its local variables: the victim Evict has chosen
\* and the value Size() returns.
Running(c, victim, size) ==
    [op |-> c.op, fid |-> c.fid, flag |-> c.flag, result |-> c.result,
     victim |-> victim, size |-> size]

NotRunning == Running(Call("new", NoFrame, FALSE, "ok"), NoFrame, 0)

\* No thread is in the replacer.
ThreadsIdle ==
    /\ latch_ = NoThread
    /\ pc = [t \in Threads |-> "idle"]
    /\ running = [t \in Threads |-> NotRunning]

\* Thread t moves to statement to.
Goto(t, to) == pc' = [pc EXCEPT ![t] = to]

\* The call of t returns or throws with result.
Finish(t, result) ==
    /\ running' = [running EXCEPT ![t].result = result]
    /\ Goto(t, "unlock")

\* Thread t calls a method of the replacer and reaches its first statement,
\* std::lock_guard<std::mutex> lock(latch_).
Enter(t) ==
    /\ pc[t] = "idle"
    /\ Goto(t, "lock")
    /\ UNCHANGED <<replacerVars, latch_, running>>

\* Mutant: the methods run without taking latch_.
CanLock_NoLatch(t) == TRUE

\* std::mutex::lock returns only when no thread holds the mutex.
CanLock(t) == latch_ = NoThread

\* The constructor of the lock_guard returns, in the method of call c.
Lock(t, c) ==
    /\ pc[t] = "lock"
    /\ CanLock(t)
    /\ c.op \in {"Evict", "RecordAccess"} => current_timestamp_ < MaxThreadTimestamp
    /\ latch_' = t
    /\ running' = [running EXCEPT ![t] = Running(c, NoFrame, 0)]
    /\ Goto(t, c.op)
    /\ UNCHANGED replacerVars

\* The victim is chosen; Evict goes on to lines 67-71 or 92-97.
Chosen(t, victim) ==
    /\ running' = [running EXCEPT ![t].victim = victim]
    /\ Goto(t, "EvictCommit")
    /\ UNCHANGED <<ret, node_store_, curr_size_>>

\* Evict returns std::nullopt.
NoVictim(t) == EvictNone /\ Finish(t, "none")

\* Evict, lines 33-66 and 73-91: the clock advances and the scan chooses.
EvictScan(t) ==
    /\ pc[t] = "Evict"
    /\ current_timestamp_' = current_timestamp_ + 1
    /\ UNCHANGED <<replacer_size_, k_, latch_>>
    /\ IF DOMAIN node_store_ = {} THEN NoVictim(t)
       ELSE IF InfiniteFrames # {}
       THEN \E o \in Orders(InfiniteFrames) :
            \E g \in [{f \in InfiniteFrames : node_store_[f].history_ = <<>>}
                        -> GarbageStamps] :
                Chosen(t, ScanInfinite(o, 1, o[1], g))
       ELSE IF FiniteFrames # {}
       THEN \E o \in Orders(FiniteFrames) :
                LET frame_id == ScanFinite(o, 1, 0, NoFrame)
                IN  IF frame_id # NoFrame THEN Chosen(t, frame_id) ELSE NoVictim(t)
       ELSE NoVictim(t)

\* Evict, lines 67-71 and 92-97: the victim's record is reset and returned.
EvictCommit(t) ==
    /\ pc[t] = "EvictCommit"
    /\ EvictVictim(running[t].victim)
    /\ Finish(t, "frame")
    /\ UNCHANGED <<replacer_size_, k_, current_timestamp_, latch_>>

\* RecordAccess, line 104: current_timestamp_++
RecordAccessTick(t) ==
    /\ pc[t] = "RecordAccess"
    /\ current_timestamp_' = current_timestamp_ + 1
    /\ Goto(t, "RecordAccessPush")
    /\ UNCHANGED <<replacer_size_, k_, node_store_, curr_size_, ret, latch_, running>>

\* RecordAccess, lines 107-116: the range test, then the push of the clock.
RecordAccessPush(t) ==
    LET f == running[t].fid
    IN  /\ pc[t] = "RecordAccessPush"
        /\ UNCHANGED <<replacer_size_, k_, curr_size_, current_timestamp_, latch_>>
        /\ IF FrameIdTooLarge(f)
           THEN /\ ret' = Call("RecordAccess", f, FALSE, "exception")
                /\ UNCHANGED node_store_
           ELSE /\ node_store_' =
                    [g \in DOMAIN node_store_ \cup {f} |->
                        LET node == IF Known(g) THEN node_store_[g] ELSE NewNode
                        IN  IF g = f
                            THEN [node EXCEPT !.history_ = Append(@, current_timestamp_)]
                            ELSE node]
                /\ ret' = Call("RecordAccess", f, FALSE, "ok")
        /\ Finish(t, ret'.result)

\* SetEvictable, lines 121-132
SetEvictableBody(t) ==
    /\ pc[t] = "SetEvictable"
    /\ SetEvictable(running[t].fid, running[t].flag)
    /\ Finish(t, ret'.result)
    /\ UNCHANGED latch_

\* Remove, lines 138-145
RemoveBody(t) ==
    /\ pc[t] = "Remove"
    /\ Remove(running[t].fid)
    /\ Finish(t, ret'.result)
    /\ UNCHANGED latch_

\* Size, line 150: return curr_size_
SizeBody(t) ==
    /\ pc[t] = "Size"
    /\ running' = [running EXCEPT ![t].size = Size, ![t].result = "size"]
    /\ Goto(t, "unlock")
    /\ UNCHANGED <<replacerVars, latch_>>

\* The lock_guard goes out of scope, by return or by exception.
Unlock(t) ==
    /\ pc[t] = "unlock"
    /\ latch_' = NoThread
    /\ Goto(t, "idle")
    /\ running' = [running EXCEPT ![t] = NotRunning]
    /\ UNCHANGED replacerVars

----------------------------------------------------------------------------
(* B+Tree leaf page (BPlusTreeLeafPage)                                    *)

\* common/config.h: the "no page" identifier.
INVALID_PAGE_ID == -1

\* The capacity Init() gives a leaf when called without an argument.
LEAF_PAGE_SLOT_CNT == 255

Keys == 1 .. MaxKey
Values == {"r1", "r2"}
NoValue == "none"

\* GenericComparator: negative, zero or positive
Compare(a, b) == IF a < b THEN -1 ELSE IF a > b THEN 1 ELSE 0

\* BPlusTreeLeafPage::Init ; the arrays hold the size_ live slots, slot i of
\* the code at position i + 1.
LeafInit(max_size) ==
    [page_type_ |-> "LEAF_PAGE", size_ |-> 0, max_size_ |-> max_size,
     next_page_id_ |-> INVALID_PAGE_ID, key_array_ |-> <<>>, rid_array_ |-> <<>>]

\* BPlusTreeLeafPage::SetNextPageId
SetNextPageId(page, next_page_id) == [page EXCEPT !.next_page_id_ = next_page_id]

\* BPlusTreeLeafPage::KeyAt
KeyAt(page, index) == page.key_array_[index + 1]

\* BPlusTreeLeafPage::ValueAt
ValueAt(page, index) ==
    IF index >= 0 /\ index < page.size_ THEN page.rid_array_[index + 1]
    ELSE "out_of_range"

\* The loop of LookUp from <<low, high>> on: the value found, or NoValue.
RECURSIVE LookUpFrom(_, _, _, _)
LookUpFrom(page, key, low, high) ==
    IF low > high THEN NoValue
    ELSE LET mid == low + (high - low) \div 2
         IN  IF Compare(KeyAt(page, mid), key) = 0 THEN ValueAt(page, mid)
             ELSE IF Compare(KeyAt(page, mid), key) < 0
                  THEN LookUpFrom(page, key, mid + 1, high)
                  ELSE LookUpFrom(page, key, low, mid - 1)

\* Mutant: the search stops one slot short of the last entry.
LookUp_SkipLast(page, key) == LookUpFrom(page, key, 0, page.size_ - 2)

\* BPlusTreeLeafPage::LookUp
LookUp(page, key) == LookUpFrom(page, key, 0, page.size_ - 1)

\* Mutant: an equal key is treated like a smaller one.
RECURSIVE SetKeyAtSearch_NoDup(_, _, _, _)
SetKeyAtSearch_NoDup(page, key, low, high) ==
    IF low > high THEN [dup |-> FALSE, low |-> low]
    ELSE LET mid == low + (high - low) \div 2
         IN  IF Compare(page.key_array_[mid + 1], key) > 0
             THEN SetKeyAtSearch_NoDup(page, key, low, mid - 1)
             ELSE SetKeyAtSearch_NoDup(page, key, mid + 1, high)

\* The search loop of SetKeyAt from <<low, high>> on: whether an equal key was
\* met, and low when the loop ends.
RECURSIVE SetKeyAtSearch(_, _, _, _)
SetKeyAtSearch(page, key, low, high) ==
    IF low > high THEN [dup |-> FALSE, low |-> low]
    ELSE LET mid == low + (high - low) \div 2
             cmp == Compare(page.key_array_[mid + 1], key)
         IN  IF cmp = 0 THEN [dup |-> TRUE, low |-> low]
             ELSE IF cmp > 0 THEN SetKeyAtSearch(page, key, low, mid - 1)
             ELSE SetKeyAtSearch(page, key, mid + 1, high)

\* Mutant: the new entry goes behind the last one, nothing is shifted.
InsertSlot_Append(s, low, x) == Append(s, x)

\* The shift loop and the store of SetKeyAt: s with x put in slot low.
InsertSlot(s, low, x) ==
    [i \in 1 .. (Len(s) + 1) |->
        IF i < low + 1 THEN s[i] ELSE IF i = low + 1 THEN x ELSE s[i - 1]]

\* BPlusTreeLeafPage::SetKeyAt: <<the page afterwards, the value returned>>
SetKeyAt(page, key, value) ==
    LET found == SetKeyAtSearch(page, key, 0, page.size_ - 1)
    IN  IF found.dup THEN [page |-> page, ok |-> FALSE]
        ELSE [page |-> [page EXCEPT
                          !.key_array_ = InsertSlot(@, found.low, key),
                          !.rid_array_ = InsertSlot(@, found.low, value),
                          !.size_ = @ + 1],
              ok |-> TRUE]

\* BPlusTreePage::IsOverflow: the size exceeds the capacity.
IsOverflow(page) == page.size_ > page.max_size_

----------------------------------------------------------------------------
(* Calls of the leaf page's methods                                        *)

\* The max_size arguments Init is called with.
LeafMaxSizes == {3, LEAF_PAGE_SLOT_CNT}

\* The indexes KeyAt and ValueAt are called with: below, inside and above
\* the live slots.
Indexes == -1 .. MaxKey

\* What a slot outside the live ones may hold: never written, or left
\* behind by an earlier use of the page.
StaleKeys == 0 .. MaxKey

LCall(op, key, value, index, result, key_out, value_out) ==
    [op |-> op, key |-> key, value |-> value, index |-> index,
     result |-> result, key_out |-> key_out, value_out |-> value_out]

NoneInserted == [key \in Keys |-> NoValue]

\* A page fresh from Init
LeafStart ==
    /\ leaf_page \in {LeafInit(max_size) : max_size \in LeafMaxSizes}
    /\ lret = LCall("Init", 0, NoValue, 0, "void", 0, NoValue)
    /\ inserted = NoneInserted

\* A call of Init(max_size)
LeafInitCall(max_size) ==
    /\ leaf_page' = [LeafInit(max_size) EXCEPT !.next_page_id_ = leaf_page.next_page_id_]
    /\ lret' = LCall("Init", 0, NoValue, 0, "void", 0, NoValue)
    /\ inserted' = NoneInserted

\* A call of SetKeyAt(key, value, comparator)
LeafSetKeyAtCall(key, value) ==
    LET set == SetKeyAt(leaf_page, key, value)
    IN  /\ leaf_page' = set.page
        /\ lret' = LCall("SetKeyAt", key, value, 0,
                         IF set.ok THEN "true" ELSE "false", 0, NoValue)
        /\ inserted' = IF set.ok THEN [inserted EXCEPT ![key] = value] ELSE inserted

\* A call of LookUp(key, comparator)
LeafLookUpCall(key) ==
    LET rid == LookUp(leaf_page, key)
    IN  /\ lret' = LCall("LookUp", key, NoValue, 0,
                         IF rid = NoValue THEN "nullopt" ELSE "value", 0, rid)
        /\ UNCHANGED <<leaf_page, inserted>>

\* A call of KeyAt(index): key_array_[index] with no test of index; outside
\* the live slots it yields whatever the slot (or, outside the array, the
\* memory around it) holds.
LeafKeyAtCall(index) ==
    /\ \E stale \in StaleKeys :
         lret' = LCall("KeyAt", 0, NoValue, index, "key",
                       IF index >= 0 /\ index < leaf_page.size_
                       THEN KeyAt(leaf_page, index) ELSE stale, NoValue)
    /\ UNCHANGED <<leaf_page, inserted>>

\* A call of ValueAt(index)
LeafValueAtCall(index) ==
    /\ lret' = LET rid == ValueAt(leaf_page, index)
               IN  IF rid = "out_of_range"
                   THEN LCall("ValueAt", 0, NoValue, index, "out_of_range", 0, NoValue)
                   ELSE LCall("ValueAt", 0, NoValue, index, "value", 0, rid)
    /\ UNCHANGED <<leaf_page, inserted>>

----------------------------------------------------------------------------
(* B+Tree (BPlusTree)                                                      *)

\* The header page as the constructor leaves it.
HeaderPage == [page_type_ |-> "HEADER_PAGE", root_page_id_ |-> INVALID_PAGE_ID]

\* The header_page_id the tree is constructed with: a page of the pool, or
\* INVALID_PAGE_ID, the only value for which IsEmpty() holds.
HeaderPageArgs == {0, INVALID_PAGE_ID}

\* BufferPoolManager::NewPage: the next page identifier not yet handed out.
NewPage == CHOOSE p \in 0 .. Cardinality(DOMAIN pages) : p \notin DOMAIN pages

TCall(op, key, value, result, found) ==
    [op |-> op, key |-> key, value |-> value, result |-> result, found |-> found]

\* BPlusTree::IsEmpty
IsEmpty == header_page_id_ = INVALID_PAGE_ID

\* BPlusTree::GetRootPageId
GetRootPageId == 0

\* One access of a page: what is done to it and the guard the caller holds
\* on it at that moment ("none" once the guard is destroyed).
Access(page_id, access, guard) ==
    [page_id |-> page_id, access |-> access, guard |-> guard]

\* GetLeaf's look at a page: auto guard = bpm_->ReadPage(page_id) lives in
\* the loop body, so it is held for the test of IsLeafPage() and destroyed
\* when GetLeaf returns the pointer into the page.
GetLeafAccess == Access(header_page_id_, "read", "ReadPageGuard")

\* A use of the pointer GetLeaf returned, by its caller.
LeafUse(leaf, access) == Access(leaf.page_id, access, "none")

\* BPlusTree::GetLeaf: the leaf reached (kind "leaf"), nullptr, or "undefined"
\* when the descent reads a page that is no tree page through the
\* BPlusTreePage view (the walk then follows whatever the bytes yield and
\* reaches no leaf).
GetLeaf(key) ==
    IF IsEmpty THEN [kind |-> "nullptr", page_id |-> INVALID_PAGE_ID]
    ELSE IF header_page_id_ \in DOMAIN pages
            /\ pages[header_page_id_].page_type_ = "LEAF_PAGE"
         THEN [kind |-> "leaf", page_id |-> header_page_id_]
         ELSE [kind |-> "undefined", page_id |-> INVALID_PAGE_ID]

\* BPlusTree::BPlusTree
TreeInit ==
    /\ header_page_id_ \in HeaderPageArgs
    /\ pages = [p \in {header_page_id_} \ {INVALID_PAGE_ID} |-> HeaderPage]
    /\ tret = TCall("new", 0, NoValue, "void", NoValue)
    /\ expected = [key \in Keys |-> NoValue]
    /\ accesses = <<Access(header_page_id_, "write", "WritePageGuard")>>
    /\ yielded = <<>>

\* A call that has not returned leaves the calling thread inside it.
Returned == tret.result # "no_return"

\* The map the calls ask for: Insert adds an absent key, Remove deletes.
ExpectedAfterInsert(key, value) ==
    IF expected[key] = NoValue THEN [expected EXCEPT ![key] = value] ELSE expected

\* BPlusTree::Insert
Insert(key, value) ==
    /\ Returned
    /\ expected' = ExpectedAfterInsert(key, value)
    /\ UNCHANGED yielded
    /\ IF IsEmpty
       THEN LET new_leaf_page_id == NewPage
                new_leaf == SetKeyAt(SetNextPageId(LeafInit(LEAF_PAGE_SLOT_CNT),
                                                   INVALID_PAGE_ID), key, value)
            IN  /\ header_page_id_' = new_leaf_page_id
                /\ pages' = [p \in DOMAIN pages \cup {new_leaf_page_id} |->
                                IF p = new_leaf_page_id THEN new_leaf.page ELSE pages[p]]
                /\ tret' = TCall("Insert", key, value, "true", NoValue)
                /\ accesses' = <<Access(new_leaf_page_id, "write", "WritePageGuard")>>
       ELSE LET leaf == GetLeaf(key)
            IN  IF leaf.kind = "undefined"
                THEN /\ tret' = TCall("Insert", key, value, "no_return", NoValue)
                     /\ accesses' = <<GetLeafAccess>>
                     /\ UNCHANGED <<header_page_id_, pages>>
                ELSE LET set == SetKeyAt(pages[leaf.page_id], key, value)
                     IN  /\ UNCHANGED header_page_id_
                         /\ pages' = [pages EXCEPT ![leaf.page_id] = set.page]
                         /\ ~IsOverflow(set.page)
                         /\ tret' = TCall("Insert", key, value, "false", NoValue)
                         /\ accesses' = <<GetLeafAccess, LeafUse(leaf, "write")>>

\* BPlusTree::GetValue
GetValue(key) ==
    /\ Returned
    /\ UNCHANGED <<header_page_id_, pages, expected, yielded>>
    /\ IF IsEmpty
       THEN /\ tret' = TCall("GetValue", key, NoValue, "false", NoValue)
            /\ accesses' = <<>>
       ELSE LET leaf == GetLeaf(key)
            IN  IF leaf.kind = "undefined"
                THEN /\ tret' = TCall("GetValue", key, NoValue, "no_return", NoValue)
                     /\ accesses' = <<GetLeafAccess>>
                ELSE LET rid == LookUp(pages[leaf.page_id], key)
                     IN  /\ accesses' = <<GetLeafAccess, LeafUse(leaf, "read")>>
                         /\ IF rid = NoValue
                            THEN tret' = TCall("GetValue", key, NoValue, "false", NoValue)
                            ELSE tret' = TCall("GetValue", key, NoValue, "true", rid)

\* BPlusTree::Remove
TreeRemove(key) ==
    /\ Returned
    /\ expected' = [expected EXCEPT ![key] = NoValue]
    /\ tret' = TCall("Remove", key, NoValue, "void", NoValue)
    /\ accesses' = <<>>
    /\ UNCHANGED <<header_page_id_, pages, yielded>>

\* A call of IsEmpty()
IsEmptyCall ==
    /\ Returned
    /\ tret' = TCall("IsEmpty", 0, NoValue, IF IsEmpty THEN "true" ELSE "false", NoValue)
    /\ accesses' = <<>>
    /\ UNCHANGED <<header_page_id_, pages, expected, yielded>>

\* A call of GetRootPageId(); the key field carries the identifier returned.
GetRootPageIdCall ==
    /\ Returned
    /\ tret' = TCall("GetRootPageId", GetRootPageId, NoValue, "page_id", NoValue)
    /\ accesses' = <<>>
    /\ UNCHANGED <<header_page_id_, pages, expected, yielded>>

\* INDEXITERATOR_TYPE(): an iterator constructed with no arguments, bound to
\* no page.
DefaultIterator == [page_id |-> INVALID_PAGE_ID, index |-> 0]

\* BPlusTree::Begin()
Begin == DefaultIterator

\* BPlusTree::Begin(key)
BeginAt(key) == DefaultIterator

\* BPlusTree::End()
End == DefaultIterator

\* The pairs an iterator produces from `it` up to End(): the entries of its
\* leaf from its index on, then those of the leaves along the sibling links.
RECURSIVE Iterate(_)
Iterate(it) ==
    IF it = End \/ it.page_id \notin DOMAIN pages THEN <<>>
    ELSE LET page == pages[it.page_id]
         IN  IF it.index >= page.size_
             THEN Iterate([page_id |-> page.next_page_id_, index |-> 0])
             ELSE <<<<KeyAt(page, it.index), ValueAt(page, it.index)>>>>
                  \o Iterate([it EXCEPT !.index = @ + 1])

\* for (auto it = Begin(); it != End(); ++it): a full iteration of the index.
Scan ==
    /\ Returned
    /\ tret' = TCall("Scan", 0, NoValue,
                     IF Begin = End THEN "begin_is_end" ELSE "begin_differs", NoValue)
    /\ yielded' = Iterate(Begin)
    /\ accesses' = <<>>
    /\ UNCHANGED <<header_page_id_, pages, expected>>

\* for (auto it = Begin(key); it != End(); ++it): an iteration from key on.
ScanFrom(key) ==
    /\ Returned
    /\ tret' = TCall("ScanFrom", key, NoValue,
                     IF BeginAt(key) = End THEN "begin_is_end" ELSE "begin_differs",
                     NoValue)
    /\ yielded' = Iterate(BeginAt(key))
    /\ accesses' = <<>>
    /\ UNCHANGED <<header_page_id_, pages, expected>>

----------------------------------------------------------------------------
(* Specifications                                                          *)

\* The tree while the replacer is exercised, and the reverse.
TreeIdle ==
    /\ header_page_id_ = INVALID_PAGE_ID
    /\ pages = [p \in {} |-> HeaderPage]
    /\ tret = TCall("new", 0, NoValue, "void", NoValue)
    /\ expected = [key \in Keys |-> NoValue]
    /\ accesses = <<>>
    /\ yielded = <<>>

ReplacerIdle ==
    /\ replacer_size_ = 0
    /\ k_ = 1
    /\ node_store_ = [f \in {} |-> NewNode]
    /\ curr_size_ = 0
    /\ current_timestamp_ = 0
    /\ ret = Call("new", NoFrame, FALSE, "ok")

LeafIdle ==
    /\ leaf_page = LeafInit(LEAF_PAGE_SLOT_CNT)
    /\ lret = LCall("Init", 0, NoValue, 0, "void", 0, NoValue)
    /\ inserted = NoneInserted

Init == ReplacerInit /\ TreeIdle /\ LeafIdle /\ ThreadsIdle

Next ==
    \/ Evict /\ UNCHANGED <<treeVars, leafVars, threadVars>>
    \/ \E f \in FrameIds : RecordAccess(f) /\ UNCHANGED <<treeVars, leafVars, threadVars>>
    \/ \E f \in FrameIds, b \in BOOLEAN :
            SetEvictable(f, b) /\ UNCHANGED <<treeVars, leafVars, threadVars>>
    \/ \E f \in FrameIds : Remove(f) /\ UNCHANGED <<treeVars, leafVars, threadVars>>

Spec == Init /\ [][Next]_vars

InitTree == TreeInit /\ ReplacerIdle /\ LeafIdle /\ ThreadsIdle

NextTree ==
    \/ \E key \in Keys, value \in Values :
            Insert(key, value) /\ UNCHANGED <<replacerVars, leafVars, threadVars>>
    \/ \E key \in Keys : GetValue(key) /\ UNCHANGED <<replacerVars, leafVars, threadVars>>
    \/ \E key \in Keys : TreeRemove(key) /\ UNCHANGED <<replacerVars, leafVars, threadVars>>
    \/ IsEmptyCall /\ UNCHANGED <<replacerVars, leafVars, threadVars>>
    \/ GetRootPageIdCall /\ UNCHANGED <<replacerVars, leafVars, threadVars>>
    \/ Scan /\ UNCHANGED <<replacerVars, leafVars, threadVars>>
    \/ \E key \in Keys : ScanFrom(key) /\ UNCHANGED <<replacerVars, leafVars, threadVars>>

SpecTree == InitTree /\ [][NextTree]_vars

InitLeaf == LeafStart /\ ReplacerIdle /\ TreeIdle /\ ThreadsIdle

NextLeaf ==
    \/ \E max_size \in LeafMaxSizes :
            LeafInitCall(max_size) /\ UNCHANGED <<replacerVars, treeVars, threadVars>>
    \/ \E key \in Keys, value \in Values :
            LeafSetKeyAtCall(key, value) /\ UNCHANGED <<replacerVars, treeVars, threadVars>>
    \/ \E key \in Keys : LeafLookUpCall(key) /\ UNCHANGED <<replacerVars, treeVars, threadVars>>
    \/ \E index \in Indexes :
            LeafKeyAtCall(index) /\ UNCHANGED <<replacerVars, treeVars, threadVars>>
    \/ \E index \in Indexes :
            LeafValueAtCall(index) /\ UNCHANGED <<replacerVars, treeVars, threadVars>>

SpecLeaf == InitLeaf /\ [][NextLeaf]_vars

InitThreads ==
    /\ ReplacerInit /\ replacer_size_ = 2
    /\ TreeIdle /\ LeafIdle /\ ThreadsIdle

NextThreads ==
    \/ \E t \in Threads : Enter(t) /\ UNCHANGED <<treeVars, leafVars>>
    \/ \E t \in Threads, c \in ThreadCalls : Lock(t, c) /\ UNCHANGED <<treeVars, leafVars>>
    \/ \E t \in Threads : EvictScan(t) /\ UNCHANGED <<treeVars, leafVars>>
    \/ \E t \in Threads : EvictCommit(t) /\ UNCHANGED <<treeVars, leafVars>>
    \/ \E t \in Threads : RecordAccessTick(t) /\ UNCHANGED <<treeVars, leafVars>>
    \/ \E t \in Threads : RecordAccessPush(t) /\ UNCHANGED <<treeVars, leafVars>>
    \/ \E t \in Threads : SetEvictableBody(t) /\ UNCHANGED <<treeVars, leafVars>>
    \/ \E t \in Threads : RemoveBody(t) /\ UNCHANGED <<treeVars, leafVars>>
    \/ \E t \in Threads : SizeBody(t) /\ UNCHANGED <<treeVars, leafVars>>
    \/ \E t \in Threads : Unlock(t) /\ UNCHANGED <<treeVars, leafVars>>

SpecThreads == InitThreads /\ [][NextThreads]_vars

----------------------------------------------------------------------------
(* Properties of the replacer, checked under Spec                          *)

History(f) == node_store_[f].history_

Registered == 0 .. (replacer_size_ - 1)

\* C1: every Evict call returns "none" or a frame whose evictable flag was
\* true immediately before the call, and it returns "none" when no frame is
\* evictable at the time of the call.
C1_EvictOnlyEvictable ==
    [][ret'.op = "Evict" =>
        /\ ret'.result = "frame" => ret'.fid \in EvictableFrames
        /\ EvictableFrames = {} => ret'.result = "none"]_vars

\* An eviction while another frame with recorded accesses is not evictable.
C1_Witness ==
    /\ ret.op = "Evict" /\ ret.result = "frame"
    /\ \E f \in DOMAIN node_store_ \ {ret.fid} :
        ~node_store_[f].is_evictable_ /\ History(f) # <<>>

\* The k-th most recent access of frame f, read off its history.
C2_KthMostRecent(f) == History(f)[Len(History(f)) - (k_ - 1)]

C2_FewerThanK == {f \in EvictableFrames : Len(History(f)) < k_}

C3_EvictEffect ==
    [][ret'.op = "Evict" =>
        IF ret'.result = "frame"
        THEN /\ DOMAIN node_store_' = DOMAIN node_store_
             /\ node_store_'[ret'.fid] = [history_ |-> <<>>, is_evictable_ |-> FALSE]
             /\ Size' = Size - 1
             /\ \A f \in DOMAIN node_store_ \ {ret'.fid} :
                    node_store_'[f] = node_store_[f]
        ELSE node_store_' = node_store_ /\ Size' = Size]_vars

\* An eviction that left another evictable frame with its history.
C3_Witness ==
    /\ ret.op = "Evict" /\ ret.result = "frame" /\ Size = 1
    /\ \E f \in EvictableFrames : f # ret.fid /\ Len(History(f)) >= 2

\* C4: in every reachable state Size() is the number of tracked frames whose
\* evictable flag is true.
C4_SizeCountsEvictable == Size = Cardinality(EvictableFrames)

\* A registered evictable frame was removed while another stays evictable.
C4_Witness ==
    /\ ret.op = "Remove" /\ ret.fid \in Registered /\ ~Known(ret.fid)
    /\ Size = 1 /\ current_timestamp_ = 0

\* C5 (the claim as stated): RecordAccess fails for every identifier outside
\* 0..num_frames-1 and then creates or extends no record; for every
\* identifier inside it succeeds and appends exactly one timestamp.
C5_RecordAccessRange ==
    [][ret'.op = "RecordAccess" =>
        IF ret'.fid \in Registered
        THEN /\ ret'.result = "ok"
             /\ Len(node_store_'[ret'.fid].history_) =
                    1 + (IF Known(ret'.fid) THEN Len(History(ret'.fid)) ELSE 0)
        ELSE /\ ret'.result = "exception"
             /\ node_store_' = node_store_]_vars

\* C6: SetEvictable(F, flag) on a known frame sets the flag and moves Size()
\* by +1 only on false->true, by -1 only on true->false and by 0 otherwise
\* (a repeated call changes nothing); on a frame without a record it fails
\* and changes nothing.
C6_SetEvictableEffect ==
    [][ret'.op = "SetEvictable" =>
        IF Known(ret'.fid)
        THEN LET was == node_store_[ret'.fid].is_evictable_
             IN  /\ ret'.result = "ok"
                 /\ node_store_' =
                        [node_store_ EXCEPT ![ret'.fid].is_evictable_ = ret'.flag]
                 /\ Size' - Size =
                        IF ~was /\ ret'.flag THEN 1
                        ELSE IF was /\ ~ret'.flag THEN -1 ELSE 0
                 /\ was = ret'.flag =>
                        node_store_' = node_store_ /\ Size' = Size
        ELSE /\ ret'.result = "exception"
             /\ UNCHANGED <<node_store_, curr_size_, current_timestamp_>>]_vars

\* SetEvictable failed on a registered frame that was removed and not
\* accessed since.
C6_Witness ==
    /\ ret.op = "SetEvictable" /\ ret.result = "exception"
    /\ ret.fid \in Registered

\* C7: Remove(F) forgets F. A Remove step deletes a known F's record, takes
\* one off Size() exactly when F was evictable, and touches no other frame;
\* on an unknown F it changes nothing. F comes back only by RecordAccess(F),
\* with that one access as its whole history and not evictable, a frame
\* becomes evictable only by SetEvictable on it, and Evict returns only
\* frames with a record that are evictable: so F is not evicted until it is
\* accessed and marked evictable again.
C7_RemoveForgets ==
    [][/\ ret'.op = "Remove" =>
            /\ ~(ret'.fid \in DOMAIN node_store_')
            /\ \A f \in DOMAIN node_store_ \ {ret'.fid} :
                   f \in DOMAIN node_store_' /\ node_store_'[f] = node_store_[f]
            /\ DOMAIN node_store_' \subseteq DOMAIN node_store_
            /\ Size' = IF Known(ret'.fid) /\ node_store_[ret'.fid].is_evictable_
                       THEN Size - 1 ELSE Size
            /\ ~Known(ret'.fid) => node_store_' = node_store_
       /\ \A f \in DOMAIN node_store_' \ DOMAIN node_store_ :
            /\ ret' = Call("RecordAccess", f, FALSE, "ok")
            /\ node_store_'[f] =
                   [history_ |-> <<current_timestamp_'>>, is_evictable_ |-> FALSE]
       /\ \A f \in DOMAIN node_store_' :
            (node_store_'[f].is_evictable_
             /\ ~(Known(f) /\ node_store_[f].is_evictable_))
                => ret' = Call("SetEvictable", f, TRUE, "ok") /\ Known(f)
       /\ (ret'.op = "Evict" /\ ret'.result = "frame") =>
            Known(ret'.fid) /\ node_store_[ret'.fid].is_evictable_]_vars

\* A registered frame with recorded accesses elsewhere has been removed.
C7_Witness ==
    /\ ret.op = "Remove" /\ ret.fid \in Registered /\ ~Known(ret.fid)
    /\ Size = 0 /\ current_timestamp_ >= 2

\* The most recent access of f; a frame never accessed counts as older than
\* every access (the clock stamps from 1).
C14_LastAccess(f) == IF History(f) = <<>> THEN 0 ELSE History(f)[Len(History(f))]

\* C14 (the claim as stated): when some evictable frame has fewer than k
\* accesses, Evict returns the one of them whose most recent access is the
\* oldest, whatever the order in which the frames are stored or scanned.
C14_EvictLeastRecentlyUsed ==
    [][(ret'.op = "Evict" /\ ret'.result = "frame" /\ C2_FewerThanK # {}) =>
        /\ ret'.fid \in C2_FewerThanK
        /\ \A f \in C2_FewerThanK : C14_LastAccess(ret'.fid) <= C14_LastAccess(f)]_vars

\* The timestamps recorded in the histories of store.
C19_Stamps(store) ==
    UNION {{store[f].history_[i] : i \in 1 .. Len(store[f].history_)} :
            f \in DOMAIN store}

\* Every history of store is strictly ascending, no timestamp is in two
\* histories, and none is ahead of the clock now.
C19_Ordered(store, now) ==
    /\ \A f \in DOMAIN store : \A i, j \in 1 .. Len(store[f].history_) :
        i < j => store[f].history_[i] < store[f].history_[j]
    /\ \A f, g \in DOMAIN store : f # g =>
        \A i \in 1 .. Len(store[f].history_) : \A j \in 1 .. Len(store[g].history_) :
            store[f].history_[i] # store[g].history_[j]
    /\ \A t \in C19_Stamps(store) : t <= now

\* C19: the clock never decreases; a successful RecordAccess appends to the
\* frame's history one timestamp, the advanced clock, greater than every
\* timestamp recorded before; so each history is strictly ascending and no
\* two recorded accesses share a timestamp.
C19_TimestampsAscend ==
    [][/\ current_timestamp_' >= current_timestamp_
       /\ C19_Ordered(node_store_', current_timestamp_')
       /\ (ret'.op = "RecordAccess" /\ ret'.result = "ok") =>
            /\ current_timestamp_' > current_timestamp_
            /\ \A t \in C19_Stamps(node_store_) : t < current_timestamp_'
            /\ node_store_'[ret'.fid].history_ =
                Append(IF Known(ret'.fid) THEN History(ret'.fid) ELSE <<>>,
                       current_timestamp_')]_vars

\* A second access of a frame, after another call advanced the clock and
\* while another frame has a history too.
C19_Witness ==
    /\ ret.op = "RecordAccess" /\ ret.result = "ok"
    /\ Len(History(ret.fid)) = 2
    /\ History(ret.fid)[2] > History(ret.fid)[1] + 1
    /\ \E f \in DOMAIN node_store_ : f # ret.fid /\ History(f) # <<>>

\* C20 (the claim as stated): every frame whose evictable flag is true has
\* at least one recorded access, so Evict never reads the back of an empty
\* history.
C20_EvictableHasAccess == \A f \in EvictableFrames : History(f) # <<>>

----------------------------------------------------------------------------
(* Properties of the replacer under threads, checked under SpecThreads     *)

\* The state latch_ protects.
C15_Protected == <<node_store_, curr_size_, current_timestamp_>>

\* Thread t is between the construction and the destruction of its
\* lock_guard when the threads are at position.
C15_InCritical(position, t) == position[t] \notin {"idle", "lock"}

\* C15: at most one thread is inside a critical section of the replacer and
\* it holds latch_; the protected state changes only by a step of the holder;
\* so the calls take effect one after another: Evict resets a frame that is
\* still evictable (no frame is handed to two Evict calls), Size() returns
\* the number of evictable frames, and between calls curr_size_ is that
\* number.
C15_Serialized ==
    [][/\ \A t, u \in Threads :
            C15_InCritical(pc', t) /\ C15_InCritical(pc', u) => t = u
       /\ \A t \in Threads : C15_InCritical(pc', t) => latch_' = t
       /\ C15_Protected' # C15_Protected =>
            /\ latch_ \in Threads
            /\ C15_InCritical(pc, latch_)
            /\ pc'[latch_] # pc[latch_]
       /\ \A t \in Threads :
            /\ (pc[t] = "EvictCommit" /\ pc'[t] = "unlock") =>
                 /\ running[t].victim \in EvictableFrames
                 /\ running[t].victim \notin EvictableFrames'
            /\ (pc[t] = "Size" /\ pc'[t] = "unlock") =>
                 running'[t].size = Cardinality(EvictableFrames)
       /\ (\A t \in Threads : ~C15_InCritical(pc', t)) =>
            curr_size_' = Cardinality(EvictableFrames')]_vars

\* One thread is about to reset its victim, one of two evictable frames,
\* while the other thread waits for latch_.
C15_Witness ==
    \E t, u \in Threads :
        /\ pc[t] = "EvictCommit" /\ pc[u] = "lock"
        /\ Cardinality(EvictableFrames) = 2
        /\ current_timestamp_ >= 2

----------------------------------------------------------------------------
(* Properties of the B+Tree, checked under SpecTree                        *)

LeafPages == {p \in DOMAIN pages : pages[p].page_type_ = "LEAF_PAGE"}

\* The keys stored in the tree's leaves.
KeysInTree ==
    UNION {{pages[p].key_array_[i] : i \in 1 .. pages[p].size_} : p \in LeafPages}

\* C8 (the claim as stated): Insert returns true whenever the key is not in
\* the tree, on the first insert and on every later one, and false exactly
\* when the key is present, the tree then being unchanged.
C8_InsertResult ==
    [][tret'.op = "Insert" =>
        IF tret'.key \in KeysInTree
        THEN tret'.result = "false" /\ pages' = pages
        ELSE tret'.result = "true"]_vars

\* C9 (the claim as stated): the tree is a map; GetValue(k) returns the
\* value of the last successful Insert of k not removed since, and not-found
\* for a key never inserted or removed.
C9_MapRefinement ==
    [][tret'.op = "GetValue" =>
        IF expected[tret'.key] = NoValue
        THEN tret'.result = "false"
        ELSE tret'.result = "true" /\ tret'.found = expected[tret'.key]]_vars

\* C10 (the claim as stated): IsEmpty() holds and GetRootPageId() is the
\* empty sentinel exactly when the tree holds no keys; after a successful
\* Insert IsEmpty() is false, GetRootPageId() is the root recorded in the
\* header page, and the header page identifier is unchanged.
C10_EmptyAndRoot ==
    [][/\ IsEmpty' <=> (KeysInTree' = {})
       /\ (GetRootPageId = INVALID_PAGE_ID) <=> (KeysInTree' = {})
       /\ (tret'.op = "Insert" /\ tret'.result = "true") =>
            /\ ~IsEmpty'
            /\ header_page_id_' = header_page_id_
            /\ header_page_id_ \in DOMAIN pages'
            /\ pages'[header_page_id_].page_type_ = "HEADER_PAGE"
            /\ GetRootPageId = pages'[header_page_id_].root_page_id_]_vars

\* The <<key, value>> pairs stored in the tree's leaves.
PairsInTree ==
    UNION {{<<pages[p].key_array_[i], pages[p].rid_array_[i]>> :
                i \in 1 .. pages[p].size_} : p \in LeafPages}

\* C12 (the claim as stated): iterating from Begin() to End() yields every
\* pair of the tree exactly once, in ascending key order, the keys yielded
\* being the keys GetValue finds; on a tree that holds keys Begin() differs
\* from End().
C12_IterationComplete ==
    [][tret'.op = "Scan" =>
        /\ \A i, j \in 1 .. Len(yielded') : i < j => yielded'[i][1] < yielded'[j][1]
        /\ {yielded'[i] : i \in 1 .. Len(yielded')} = PairsInTree
        /\ {yielded'[i][1] : i \in 1 .. Len(yielded')} =
            {key \in Keys : \E p \in LeafPages : LookUp(pages[p], key) # NoValue}
        /\ KeysInTree # {} => tret'.result = "begin_differs"]_vars

\* C16 (the claim as stated): every read and every mutation of a page by an
\* index operation happens while the operation holds a guard on that page,
\* an exclusive one for a mutation; GetValue and Insert do not use the leaf
\* after its guard is released.
C16_AccessesGuarded ==
    \A i \in 1 .. Len(accesses) :
        /\ accesses[i].guard # "none"
        /\ accesses[i].access = "write" => accesses[i].guard = "WritePageGuard"

----------------------------------------------------------------------------
(* Properties of the leaf page, checked under SpecLeaf                     *)

LiveSlots(page) == 1 .. page.size_

LiveKeys(page) == {page.key_array_[i] : i \in LiveSlots(page)}

\* C11: SetKeyAt(k, v') on a leaf that holds k returns false and leaves the
\* size, the keys and the values as they were, for every v'; no leaf holds
\* two entries with equal keys.
C11_LeafUniqueness ==
    [][/\ (lret'.op = "SetKeyAt" /\ lret'.key \in LiveKeys(leaf_page)) =>
            lret'.result = "false" /\ leaf_page' = leaf_page
       /\ \A i, j \in LiveSlots(leaf_page') :
            i # j => leaf_page'.key_array_[i] # leaf_page'.key_array_[j]]_vars

\* A key already stored was offered again with another value.
C11_Witness ==
    /\ lret.op = "SetKeyAt" /\ lret.result = "false" /\ leaf_page.size_ >= 2
    /\ inserted[lret.key] # lret.value

\* C13 (the claim as stated): KeyAt(i) and ValueAt(i) reject every index
\* outside [0, size) with an out-of-range error and return the i-th key and
\* the i-th value inside.
C13_AccessorsChecked ==
    [][lret'.op \in {"KeyAt", "ValueAt"} =>
        IF lret'.index >= 0 /\ lret'.index < leaf_page.size_
        THEN IF lret'.op = "KeyAt"
             THEN lret'.result = "key"
                  /\ lret'.key_out = leaf_page.key_array_[lret'.index + 1]
             ELSE lret'.result = "value"
                  /\ lret'.value_out = leaf_page.rid_array_[lret'.index + 1]
        ELSE lret'.result = "out_of_range"]_vars

\* C17: after Init and any SetKeyAt calls the live keys are strictly
\* ascending, size is the number of SetKeyAt calls that returned true, and
\* every value sits at the index of the key it was inserted with.
C17_LeafSorted ==
    /\ Len(leaf_page.key_array_) = leaf_page.size_
    /\ Len(leaf_page.rid_array_) = leaf_page.size_
    /\ \A i, j \in LiveSlots(leaf_page) :
        i < j => leaf_page.key_array_[i] < leaf_page.key_array_[j]
    /\ leaf_page.size_ = Cardinality({key \in Keys : inserted[key] # NoValue})
    /\ \A i \in LiveSlots(leaf_page) :
        leaf_page.rid_array_[i] = inserted[leaf_page.key_array_[i]]

\* The smallest key went in last, in front of two entries.
C17_Witness ==
    /\ lret.op = "SetKeyAt" /\ lret.result = "true" /\ lret.key = 1
    /\ leaf_page.size_ = 3 /\ leaf_page.rid_array_[1] # leaf_page.rid_array_[2]

\* The value a scan of the live slots from the front finds for key.
C18_LinearScan(page, key) ==
    IF key \in LiveKeys(page)
    THEN page.rid_array_[CHOOSE i \in LiveSlots(page) : page.key_array_[i] = key]
    ELSE NoValue

\* C18: LookUp(key) agrees with a linear scan for every leaf built by
\* SetKeyAt calls and every key, present or absent, also below the first
\* and above the last entry and on an empty leaf.
C18_LookUpIsScan ==
    \A key \in 0 .. (MaxKey + 1) :
        LookUp(leaf_page, key) = C18_LinearScan(leaf_page, key)

\* A key below the first entry of a leaf with two entries was looked up.
C18_Witness ==
    /\ lret.op = "LookUp" /\ lret.result = "nullopt" /\ leaf_page.size_ = 2
    /\ lret.key < leaf_page.key_array_[1]

=============================================================================
